---- MODULE Spec2Model ----
(***************************************************************************)
(* State-machine model of the contiguous-sequence stitching of gwpy's      *)
(* Spectrogram (src/gwpy/spectrogram/core.py) on top of the metadata       *)
(* carrying Array / Array2D (src/gwpy/data/array.py, array2d.py).          *)
(*                                                                         *)
(* A Spectrogram is a record                                               *)
(*    data     : sequence of rows, each row a sequence of ncols cells      *)
(*    ncols    : shape[1] (kept separately: a grid of 0 rows has a width)  *)
(*    metadata : the metadata dict, a function whose DOMAIN is the set of  *)
(*               keys currently stored ("epoch","dx","y0","dy","unit")     *)
(* The heap maps object identities to such records, so that in-place       *)
(* mutation, aliasing (other is self) and copies are distinguishable.      *)
(***************************************************************************)
EXTENDS Integers, Sequences, FiniteSets, TLC

VARIABLES heap, last, pc

vars == <<heap, last, pc>>

\* ------------------------------------------------------------------------
\* Bounds of the model
MaxRows == 2
MaxEpoch == 3

Widths == {1, 2}
Steps == {1, 2}
FreqSteps == {1, 2}
FreqOrigins == {0, 1}
Units == {"", "Hz"}
Gaps == {"raise", "ignore", "pad"}

\* ------------------------------------------------------------------------
\* Error messages raised by the code
NoError == "none"
ErrDt == "ValueError: Spectrogram time resolutions do not match."
ErrDf == "ValueError: Spectrogram frequency resolutios do not match."
ErrF0 == "ValueError: Spectrogram starting frequencies do not match."
ErrUnit == "ValueError: Spectrogram units do not match"
ErrKeyDy == "KeyError: 'dy'"
ErrKeyY0 == "KeyError: 'y0'"
ErrAppendBefore == "ValueError: Cannot append Spectrogram that starts before this one."
ErrPrependAfter == "ValueError: Cannot prepend Spectrogram that starts after this one."
ErrDiscontiguous == "ValueError: Cannot append discontiguous Spectrogram"
ErrBroadcast == "ValueError: could not broadcast input array"

CompatErrors == {ErrDt, ErrDf, ErrF0, ErrUnit, ErrKeyDy, ErrKeyY0}

\* ------------------------------------------------------------------------
\* Helpers on functions and sequences
Has(md, k) == k \in DOMAIN md

Put(md, k, v) == [x \in (DOMAIN md) \cup {k} |-> IF x = k THEN v ELSE md[x]]

Restrict(f, S) == [x \in S \cap DOMAIN f |-> f[x]]

ZeroRow(nc) == [j \in 1..nc |-> 0]

ZeroRows(n, nc) == [i \in 1..n |-> ZeroRow(nc)]

NRows(x) == Len(x.data)

\* the identity handed to the next object allocated on heap h
NewId(h) == CHOOSE n \in 1..(Cardinality(DOMAIN h) + 1) : n \notin DOMAIN h

\* ------------------------------------------------------------------------
\* Array.unit getter: an unset unit is lazily stored as the dimensionless
\* unit (the getter calls the setter), so reading it changes the metadata.
unit_get(h, x) ==
    IF Has(h[x].metadata, "unit")
    THEN h
    ELSE [h EXCEPT ![x].metadata = Put(@, "unit", "")]

\* Array.copy: ndarray.copy plus copy.deepcopy of the metadata; the copy is
\* a new object n whose value equals the original's.
copy(h, x, n) == [i \in (DOMAIN h) \cup {n} |-> IF i = n THEN h[x] ELSE h[i]]

\* TimeSeries.span as aliased by Spectrogram.span: the half-open interval
\* [epoch, epoch + N*dt) of the time axis (axis 0).
span(x) == <<x.metadata.epoch, x.metadata.epoch + NRows(x) * x.metadata.dx>>

\* ------------------------------------------------------------------------
\* Variants of is_compatible with a comparison left out (the starting
\* frequency, the unit), used to show that the properties notice each check.
is_compatible_no_f0(h, s, o) ==
    LET ms == h[s].metadata
        mo == h[o].metadata
        fail(hh, e) == [heap |-> hh, ret |-> FALSE, err |-> e]
    IN  IF ms.dx # mo.dx THEN fail(h, ErrDt)
        ELSE IF ~Has(ms, "dy") \/ ~Has(mo, "dy") THEN fail(h, ErrKeyDy)
        ELSE IF ms.dy # mo.dy THEN fail(h, ErrDf)
        ELSE LET h1 == unit_get(h, s)
                 h2 == unit_get(h1, o)
             IN  IF h2[s].metadata.unit # h2[o].metadata.unit
                 THEN fail(h2, ErrUnit)
                 ELSE [heap |-> h2, ret |-> TRUE, err |-> NoError]

is_compatible_no_unit(h, s, o) ==
    LET ms == h[s].metadata
        mo == h[o].metadata
        fail(hh, e) == [heap |-> hh, ret |-> FALSE, err |-> e]
    IN  IF ms.dx # mo.dx THEN fail(h, ErrDt)
        ELSE IF ~Has(ms, "dy") \/ ~Has(mo, "dy") THEN fail(h, ErrKeyDy)
        ELSE IF ms.dy # mo.dy THEN fail(h, ErrDf)
        ELSE IF ~Has(ms, "y0") \/ ~Has(mo, "y0") THEN fail(h, ErrKeyY0)
        ELSE IF ms.y0 # mo.y0 THEN fail(h, ErrF0)
        ELSE [heap |-> h, ret |-> TRUE, err |-> NoError]

\* ------------------------------------------------------------------------
\* Spectrogram.is_compatible(self, other).  Result: the heap after the call
\* (the unit getter may have stored a default), the returned value and the
\* error raised.  The comparisons are made in the order dt, df, f0, unit;
\* Array2D.dy / Array2D.y0 raise KeyError when the key is not stored.
is_compatible(h, s, o) ==
    LET ms == h[s].metadata
        mo == h[o].metadata
        fail(hh, e) == [heap |-> hh, ret |-> FALSE, err |-> e]
    IN  IF ms.dx # mo.dx THEN fail(h, ErrDt)
        ELSE IF ~Has(ms, "dy") \/ ~Has(mo, "dy") THEN fail(h, ErrKeyDy)
        ELSE IF ms.dy # mo.dy THEN fail(h, ErrDf)
        ELSE IF ~Has(ms, "y0") \/ ~Has(mo, "y0") THEN fail(h, ErrKeyY0)
        ELSE IF ms.y0 # mo.y0 THEN fail(h, ErrF0)
        ELSE LET h1 == unit_get(h, s)
                 h2 == unit_get(h1, o)
             IN  IF h2[s].metadata.unit # h2[o].metadata.unit
                 THEN fail(h2, ErrUnit)
                 ELSE [heap |-> h2, ret |-> TRUE, err |-> NoError]

\* Variant of contiguity with the two return values exchanged.
contiguity_swapped(c, s, o) ==
    IF c.err # NoError THEN [heap |-> c.heap, ret |-> 0, err |-> c.err]
    ELSE IF span(c.heap[s])[2] = span(c.heap[o])[1]
         THEN [heap |-> c.heap, ret |-> -1, err |-> NoError]
    ELSE IF span(c.heap[o])[2] = span(c.heap[s])[1]
         THEN [heap |-> c.heap, ret |-> 1, err |-> NoError]
    ELSE [heap |-> c.heap, ret |-> 0, err |-> NoError]

\* Spectrogram.is_contiguous, lines 286-291, given the outcome c of the call
\* of is_compatible on line 285: +1, -1 or 0, or the error of is_compatible
\* (ret is then meaningless and left 0).
contiguity(c, s, o) ==
    IF c.err # NoError THEN [heap |-> c.heap, ret |-> 0, err |-> c.err]
    ELSE IF span(c.heap[s])[2] = span(c.heap[o])[1]
         THEN [heap |-> c.heap, ret |-> 1, err |-> NoError]
    ELSE IF span(c.heap[o])[2] = span(c.heap[s])[1]
         THEN [heap |-> c.heap, ret |-> -1, err |-> NoError]
    ELSE [heap |-> c.heap, ret |-> 0, err |-> NoError]

\* Spectrogram.is_contiguous(self, other)
is_contiguous(h, s, o) == contiguity(is_compatible(h, s, o), s, o)

\* ------------------------------------------------------------------------
\* numpy.ndarray.resize(new_shape, refcheck=False) along axis 0: the buffer is
\* grown in place, the existing rows keep their place (C order) and the added
\* rows are zero-filled; the metadata is not touched.  The array is taken to
\* own its buffer (numpy refuses to resize an array that does not).
resize(h, x, n) ==
    [h EXCEPT ![x].data =
        [i \in 1..n |-> IF i <= Len(@) THEN @[i] ELSE ZeroRow(h[x].ncols)]]

\* first (1-based) row selected by the Python slice [-k:] of total rows;
\* -0 is 0, so [-0:] selects every row.
tail_lo(total, k) == IF k = 0 THEN 1 ELSE (IF k > total THEN 0 ELSE total - k) + 1

\* numpy broadcasting of a (n, w) source into a (tn, tw) target
broadcastable(n, w, tn, tw) == (n = tn \/ n = 1) /\ (w = tw \/ w = 1)

\* ndarray.__setitem__ with a row slice: rows lo..hi of x receive src (rows
\* of width w), broadcast where numpy allows it; src is read before writing.
setitem(h, x, lo, hi, src, w) ==
    [h EXCEPT ![x].data =
        [i \in 1..Len(@) |->
            IF i < lo \/ i > hi THEN @[i]
            ELSE [j \in 1..h[x].ncols |->
                    src[IF Len(src) = 1 THEN 1 ELSE i - lo + 1]
                       [IF w = 1 THEN 1 ELSE j]]]]

\* numpy.zeros(gapshape).view(new.__class__) followed by the assignments of
\* epoch and dt: a zero block carrying only those two metadata entries.
zeros_block(n, nc, epoch, dt) ==
    [data |-> ZeroRows(n, nc), ncols |-> nc,
     metadata |-> [k \in {"epoch", "dx"} |-> IF k = "epoch" THEN epoch ELSE dt]]

alloc(h, n, x) == [i \in (DOMAIN h) \cup {n} |-> IF i = n THEN x ELSE h[i]]

\* result of append / prepend: the heap, the returned object (0: none), the
\* error raised, and what the call did on the way (copy made, buffer resized,
\* row counts of the zero blocks synthesized)
Outcome(h, r, e, cp, rs, zs) ==
    [heap |-> h, ret |-> r, err |-> e, copied |-> cp, resized |-> rs, zeros |-> zs]

\* ------------------------------------------------------------------------
\* Spectrogram.append, lines 341-347: resize, then new[-other.shape[0]:] =
\* other.data.  other is read from the heap after the resize (other may be
\* new itself).
append_join(h, new, o, cp, zs) ==
    LET N == NRows(h[new])
        h1 == resize(h, new, N + NRows(h[o]))
        total == NRows(h1[new])
        M == NRows(h1[o])
        lo == tail_lo(total, M)
    IN  IF broadcastable(M, h1[o].ncols, total - lo + 1, h1[new].ncols)
        THEN Outcome(setitem(h1, new, lo, total, h1[o].data, h1[o].ncols),
                     new, NoError, cp, TRUE, zs)
        ELSE Outcome(h1, 0, ErrBroadcast, cp, TRUE, zs)

\* Variant of append_ngap with the operands of the subtraction exchanged.
append_ngap_swapped(new, o) == <<span(new)[2] - span(o)[1], new.metadata.dx>>

\* line 327: ngap = (other.span[0] - new.span[1]) / new.dt.value, as the pair
\* numerator, denominator (true division)
append_ngap(new, o) == <<span(o)[1] - span(new)[2], new.metadata.dx>>

\* line 328: ngap < 1 (the step is positive)
append_ngap_lt_1(new, o) == append_ngap(new, o)[1] < append_ngap(new, o)[2]

\* gapshape[0] = ngap: numpy.zeros (of the numpy this Python 2 code ran on)
\* takes a float length and truncates it towards zero
gap_rows(ngap) == ngap[1] \div ngap[2]

\* Variant of target that ignores inplace and always works on self.
target_always_self(h, s, inplace) == s

\* Variant of append_branch in which only 'pad' is told apart, so that a
\* discontiguous other is joined under 'raise' as under 'ignore'.
append_branch_no_raise(c, gap) ==
    IF c # 1
    THEN IF gap = "pad" THEN "pad" ELSE "join"
    ELSE "join"

\* Variant of target that ignores inplace and always works on a copy.
target_always_copy(h, s, inplace) == NewId(h)

\* lines 319-323 (375-379): the object the join works on, self when inplace,
\* otherwise a copy of self (a new identity)
target(h, s, inplace) == IF inplace THEN s ELSE NewId(h)

\* lines 325-340: what append does for the value c of new.is_contiguous(other)
\* and the gap policy: join directly, pad first, or raise
append_branch(c, gap) ==
    IF c # 1
    THEN IF gap = "pad" THEN "pad"
         ELSE IF gap = "ignore" THEN "join"
         ELSE "raise"
    ELSE "join"

\* Spectrogram.append, written as the sequence of its steps; each step gets
\* the values computed so far.  The call new.append(zeros, inplace=True) of
\* line 336 runs with the default gap='raise'.
RECURSIVE append(_, _, _, _, _)

\* lines 336, 341-347: after the nested call r that appended the zero block
append_padded(r, new, o, cp, k) ==
    IF r.err # NoError
    THEN Outcome(r.heap, 0, r.err, cp, r.resized, <<k>> \o r.zeros)
    ELSE append_join(r.heap, new, o, cp, <<k>> \o r.zeros)

\* lines 327-336: the 'pad' branch on heap h, z the identity of the zero block
append_pad(h, new, o, cp, z) ==
    IF append_ngap_lt_1(h[new], h[o])
    THEN Outcome(h, 0, ErrAppendBefore, cp, FALSE, <<>>)
    ELSE append_padded(
            append(alloc(h, z, zeros_block(gap_rows(append_ngap(h[new], h[o])),
                                           h[new].ncols, span(h[new])[2],
                                           h[new].metadata.dx)),
                   new, z, "raise", TRUE),
            new, o, cp, gap_rows(append_ngap(h[new], h[o])))

\* lines 325-347, c1 the outcome of new.is_contiguous(other)
append_fill(c1, new, o, gap, cp) ==
    IF c1.err # NoError
    THEN Outcome(c1.heap, 0, c1.err, cp, FALSE, <<>>)
    ELSE IF append_branch(c1.ret, gap) = "join"
    THEN append_join(c1.heap, new, o, cp, <<>>)
    ELSE IF append_branch(c1.ret, gap) = "pad"
    THEN append_pad(c1.heap, new, o, cp, NewId(c1.heap))
    ELSE Outcome(c1.heap, 0, ErrDiscontiguous, cp, FALSE, <<>>)

\* lines 319-325, new the object to work on (self or the identity of a copy)
append_on(h, s, new, o, gap) ==
    append_fill(is_contiguous(IF new = s THEN h ELSE copy(h, s, new), new, o),
                new, o, gap, new # s)

\* lines 317-318, c0 the outcome of self.is_compatible(other)
append_checked(c0, s, o, gap, inplace) ==
    IF c0.err # NoError
    THEN Outcome(c0.heap, 0, c0.err, FALSE, FALSE, <<>>)
    ELSE append_on(c0.heap, s, target(c0.heap, s, inplace), o, gap)

append(h, s, o, gap, inplace) ==
    append_checked(is_compatible(h, s, o), s, o, gap, inplace)

\* ------------------------------------------------------------------------
\* Spectrogram.prepend, lines 397-404: resize, shift self's rows to the end
\* (new[-N:] = new.data[:N]), then new[:other.shape[0]] = other.data.
prepend_join(h, new, o, cp, zs) ==
    LET N == NRows(h[new])
        w == h[new].ncols
        h1 == resize(h, new, N + NRows(h[o]))
        total == NRows(h1[new])
        lo == tail_lo(total, N)
    IN  IF ~broadcastable(N, w, total - lo + 1, w)
        THEN Outcome(h1, 0, ErrBroadcast, cp, TRUE, zs)
        ELSE
        LET h2 == setitem(h1, new, lo, total, SubSeq(h1[new].data, 1, N), w)
            M == NRows(h2[o])
            hi == IF M > total THEN total ELSE M
        IN  IF broadcastable(M, h2[o].ncols, hi, w)
            THEN Outcome(setitem(h2, new, 1, hi, h2[o].data, h2[o].ncols),
                         new, NoError, cp, TRUE, zs)
            ELSE Outcome(h2, 0, ErrBroadcast, cp, TRUE, zs)

\* line 383: ngap = int((new.span[0] - other.span[1]) / new.dt.value)
prepend_ngap(new, o) == <<span(new)[1] - span(o)[2], new.metadata.dx>>

\* int() truncates towards zero; line 384 tests the truncated count
trunc(ngap) ==
    IF ngap[1] >= 0 THEN ngap[1] \div ngap[2] ELSE -((-ngap[1]) \div ngap[2])

prepend_ngap_lt_1(new, o) == trunc(prepend_ngap(new, o)) < 1

\* lines 381-396: the same decision in prepend, for the value -1
prepend_branch(c, gap) ==
    IF c # -1
    THEN IF gap = "pad" THEN "pad"
         ELSE IF gap = "ignore" THEN "join"
         ELSE "raise"
    ELSE "join"

\* Spectrogram.prepend, step by step like append.  The call
\* new.prepend(zeros, inplace=True) of line 392 runs with gap='raise'.
RECURSIVE prepend(_, _, _, _, _)

\* lines 392, 397-404: after the nested call r that prepended the zero block
prepend_padded(r, new, o, cp, k) ==
    IF r.err # NoError
    THEN Outcome(r.heap, 0, r.err, cp, r.resized, <<k>> \o r.zeros)
    ELSE prepend_join(r.heap, new, o, cp, <<k>> \o r.zeros)

\* lines 383-392: the 'pad' branch on heap h, z the identity of the zero block
prepend_pad(h, new, o, cp, z) ==
    IF prepend_ngap_lt_1(h[new], h[o])
    THEN Outcome(h, 0, ErrPrependAfter, cp, FALSE, <<>>)
    ELSE prepend_padded(
            prepend(alloc(h, z, zeros_block(trunc(prepend_ngap(h[new], h[o])),
                                           h[new].ncols, span(h[o])[2],
                                           h[new].metadata.dx)),
                   new, z, "raise", TRUE),
            new, o, cp, trunc(prepend_ngap(h[new], h[o])))

\* lines 381-404, c1 the outcome of new.is_contiguous(other)
prepend_fill(c1, new, o, gap, cp) ==
    IF c1.err # NoError
    THEN Outcome(c1.heap, 0, c1.err, cp, FALSE, <<>>)
    ELSE IF prepend_branch(c1.ret, gap) = "join"
    THEN prepend_join(c1.heap, new, o, cp, <<>>)
    ELSE IF prepend_branch(c1.ret, gap) = "pad"
    THEN prepend_pad(c1.heap, new, o, cp, NewId(c1.heap))
    ELSE Outcome(c1.heap, 0, ErrDiscontiguous, cp, FALSE, <<>>)

\* lines 375-381
prepend_on(h, s, new, o, gap) ==
    prepend_fill(is_contiguous(IF new = s THEN h ELSE copy(h, s, new), new, o),
                 new, o, gap, new # s)

\* lines 373-374
prepend_checked(c0, s, o, gap, inplace) ==
    IF c0.err # NoError
    THEN Outcome(c0.heap, 0, c0.err, FALSE, FALSE, <<>>)
    ELSE prepend_on(c0.heap, s, target(c0.heap, s, inplace), o, gap)

prepend(h, s, o, gap, inplace) ==
    prepend_checked(is_compatible(h, s, o), s, o, gap, inplace)

\* ------------------------------------------------------------------------
\* Construction.  Spectrogram.__new__ forwards epoch, dt, f0, df and unit to
\* Array.__new__, which stores (through the property setters) only the
\* keywords that are not None.  NotGiven / "-" stand for a keyword left None.
NotGiven == -1

Spectrogram(rows, nc, epoch, dt, f0, df, unit) ==
    [data |-> rows, ncols |-> nc,
     metadata |->
        [k \in {"epoch", "dx"}
               \cup (IF f0 # NotGiven THEN {"y0"} ELSE {})
               \cup (IF df # NotGiven THEN {"dy"} ELSE {})
               \cup (IF unit # "-" THEN {"unit"} ELSE {}) |->
            CASE k = "epoch" -> epoch
              [] k = "dx" -> dt
              [] k = "y0" -> f0
              [] k = "dy" -> df
              [] k = "unit" -> unit]]

\* sample values: row i, column j of the grid tagged t holds t + 10*i + j,
\* never 0, so that zero padding is recognisable
Samples(t, n, nc) == [i \in 1..n |-> [j \in 1..nc |-> t + 10 * i + j]]

NoCall ==
    [op |-> "none", self |-> 0, other |-> 0, gap |-> "raise", inplace |-> TRUE,
     ret |-> 0, truth |-> FALSE, err |-> NoError, copied |-> FALSE,
     resized |-> FALSE, zeros |-> <<>>, pre |-> <<>>, item |-> <<>>]

\* Two spectrograms with every geometry (rows, width, epoch), a common time
\* step and a set or unset data unit.
Init ==
    /\ pc = "ready"
    /\ last = NoCall
    /\ \E n1, n2 \in 0..MaxRows, w1, w2 \in Widths, e1, e2 \in 0..MaxEpoch,
          dt \in Steps, u1, u2 \in Units \cup {"-"} :
          heap = <<Spectrogram(Samples(0, n1, w1), w1, e1, dt, 0, 1, u1),
                   Spectrogram(Samples(50, n2, w2), w2, e2, dt, 0, 1, u2)>>

\* Two one-row spectrograms, the second starting where the first ends or one
\* sample later, with every combination of time step, frequency step,
\* frequency origin and unit, each of the last three set or unset.
InitMeta ==
    /\ pc = "ready"
    /\ last = NoCall
    /\ \E e2 \in {1, 2}, dt1, dt2 \in Steps,
          df1, df2 \in FreqSteps \cup {NotGiven},
          f1, f2 \in FreqOrigins \cup {NotGiven},
          u1, u2 \in Units \cup {"-"} :
          heap = <<Spectrogram(Samples(0, 1, 1), 1, 0, dt1, f1, df1, u1),
                   Spectrogram(Samples(50, 1, 1), 1, e2, dt2, f2, df2, u2)>>

\* what stays on the heap after a call: the caller's objects and the object
\* returned; temporaries (a zero block, the copy of a failed call) are dropped
Keep(h, r) == Restrict(h, (DOMAIN heap) \cup (IF r = 0 THEN {} ELSE {r}))

Record(op, s, o, gap, inplace, r) ==
    [op |-> op, self |-> s, other |-> o, gap |-> gap, inplace |-> inplace,
     ret |-> r.ret, truth |-> FALSE, err |-> r.err, copied |-> r.copied,
     resized |-> r.resized, zeros |-> r.zeros, pre |-> heap, item |-> <<>>]

AppendCall(s, o, gap, inplace) ==
    /\ pc = "ready"
    /\ LET r == append(heap, s, o, gap, inplace)
       IN  /\ heap' = Keep(r.heap, r.ret)
           /\ last' = Record("append", s, o, gap, inplace, r)
    /\ pc' = "done"

PrependCall(s, o, gap, inplace) ==
    /\ pc = "ready"
    /\ LET r == prepend(heap, s, o, gap, inplace)
       IN  /\ heap' = Keep(r.heap, r.ret)
           /\ last' = Record("prepend", s, o, gap, inplace, r)
    /\ pc' = "done"

IsCompatibleCall(s, o) ==
    /\ pc = "ready"
    /\ LET r == is_compatible(heap, s, o)
       IN  /\ heap' = r.heap
           /\ last' = [NoCall EXCEPT !.op = "is_compatible", !.self = s,
                           !.other = o, !.truth = r.ret, !.err = r.err,
                           !.pre = heap]
    /\ pc' = "done"

IsContiguousCall(s, o) ==
    /\ pc = "ready"
    /\ LET r == is_contiguous(heap, s, o)
       IN  /\ heap' = r.heap
           /\ last' = [NoCall EXCEPT !.op = "is_contiguous", !.self = s,
                           !.other = o, !.ret = r.ret, !.err = r.err,
                           !.pre = heap]
    /\ pc' = "done"

\* self is the first spectrogram; other is either of the two (other may be
\* self itself)
Next ==
    \/ \E o \in DOMAIN heap, gap \in Gaps, inplace \in BOOLEAN :
          AppendCall(1, o, gap, inplace)
    \/ \E o \in DOMAIN heap, gap \in Gaps, inplace \in BOOLEAN :
          PrependCall(1, o, gap, inplace)
    \/ \E o \in DOMAIN heap : IsCompatibleCall(1, o)
    \/ \E o \in DOMAIN heap : IsContiguousCall(1, o)

Spec == Init /\ [][Next]_vars

SpecMeta == InitMeta /\ [][Next]_vars

\* ========================================================================
\* Properties.  Vocabulary of the claims, stated on the operands as they were
\* before the call (last.pre) and on the outcome recorded by the call.
PreSelf == last.pre[last.self]

PreOther == last.pre[last.other]

Start(x) == x.metadata.epoch

End(x) == x.metadata.epoch + Len(x.data) * x.metadata.dx

\* value read through the unit property: dimensionless when nothing is stored
UnitOf(x) == IF "unit" \in DOMAIN x.metadata THEN x.metadata.unit ELSE ""

BothSetEqual(x, y, k) ==
    /\ k \in DOMAIN x.metadata
    /\ k \in DOMAIN y.metadata
    /\ x.metadata[k] = y.metadata[k]

BothSetDiffer(x, y, k) ==
    /\ k \in DOMAIN x.metadata
    /\ k \in DOMAIN y.metadata
    /\ x.metadata[k] # y.metadata[k]

\* time step, frequency step, frequency origin and unit all equal
Compatible(x, y) ==
    /\ BothSetEqual(x, y, "dx")
    /\ BothSetEqual(x, y, "dy")
    /\ BothSetEqual(x, y, "y0")
    /\ UnitOf(x) = UnitOf(y)

IsJoin == last.op \in {"append", "prepend"}

Succeeded == last.err = NoError /\ last.ret \in DOMAIN heap

\* ------------------------------------------------------------------------
\* C1: appending, with gap='raise', a compatible b whose span starts where
\* a's span ends succeeds and yields a's rows followed by b's rows, with span
\* [a.start, b.end).
C1_AppendContiguousJoins ==
    (/\ last.op = "append"
     /\ last.gap = "raise"
     /\ Compatible(PreSelf, PreOther)
     /\ PreSelf.ncols = PreOther.ncols
     /\ End(PreSelf) = Start(PreOther))
    => (/\ Succeeded
        /\ heap[last.ret].data = PreSelf.data \o PreOther.data
        /\ Start(heap[last.ret]) = Start(PreSelf)
        /\ End(heap[last.ret]) = End(PreOther))

\* ------------------------------------------------------------------------
\* C2: with gap='raise', append of a compatible other that is not contiguous
\* after self (prepend: not contiguous before self) fails with the
\* discontiguity error and joins nothing: no resize, no zero block, self's
\* rows as before, no new object.
ContiguousAfter(x, y) == End(x) = Start(y)

ContiguousBefore(x, y) == End(y) = Start(x) /\ End(x) # Start(y)

NotContiguousForJoin ==
    \/ last.op = "append" /\ ~ContiguousAfter(PreSelf, PreOther)
    \/ last.op = "prepend" /\ ~ContiguousBefore(PreSelf, PreOther)

NothingJoined ==
    /\ last.ret = 0
    /\ ~last.resized
    /\ last.zeros = <<>>
    /\ DOMAIN heap = DOMAIN last.pre
    /\ \A i \in DOMAIN heap : heap[i].data = last.pre[i].data

C2_RaiseOnDiscontiguous ==
    (/\ IsJoin
     /\ last.gap = "raise"
     /\ Compatible(PreSelf, PreOther)
     /\ NotContiguousForJoin)
    => (last.err = ErrDiscontiguous /\ NothingJoined)

C2_Witness ==
    /\ last.op = "append"
    /\ last.gap = "raise"
    /\ Compatible(PreSelf, PreOther)
    /\ Start(PreOther) > End(PreSelf)
    /\ Len(PreOther.data) > 0
    /\ last.err = ErrDiscontiguous

\* ------------------------------------------------------------------------
\* C3: with gap='pad', appending a compatible other that starts a whole
\* number k >= 1 of samples after self ends succeeds and yields self's rows,
\* k zero rows, then other's rows.
GapSamples == (Start(PreOther) - End(PreSelf)) \div PreSelf.metadata.dx

WholeGap ==
    /\ Start(PreOther) - End(PreSelf) = GapSamples * PreSelf.metadata.dx
    /\ GapSamples >= 1

C3_PadInsertsZeroRows ==
    (/\ last.op = "append"
     /\ last.gap = "pad"
     /\ Compatible(PreSelf, PreOther)
     /\ PreSelf.ncols = PreOther.ncols
     /\ WholeGap)
    => (/\ Succeeded
        /\ heap[last.ret].data =
              PreSelf.data \o ZeroRows(GapSamples, PreSelf.ncols) \o PreOther.data)

\* ------------------------------------------------------------------------
\* C4: with gap='pad', append of a compatible, not contiguous other that
\* starts at or before self's end fails with the "starts before" error, and
\* prepend of one that ends at or after self's start fails with the "starts
\* after" error; no zero block is synthesized and nothing is joined.
C4_PadRejectsNonPositiveGap ==
    /\ (/\ last.op = "append"
        /\ last.gap = "pad"
        /\ Compatible(PreSelf, PreOther)
        /\ ~ContiguousAfter(PreSelf, PreOther)
        /\ Start(PreOther) <= End(PreSelf))
       => (last.err = ErrAppendBefore /\ NothingJoined)
    /\ (/\ last.op = "prepend"
        /\ last.gap = "pad"
        /\ Compatible(PreSelf, PreOther)
        /\ ~ContiguousBefore(PreSelf, PreOther)
        /\ End(PreOther) >= Start(PreSelf))
       => (last.err = ErrPrependAfter /\ NothingJoined)

C4_Witness ==
    /\ last.op = "append"
    /\ last.gap = "pad"
    /\ Compatible(PreSelf, PreOther)
    /\ Start(PreOther) < End(PreSelf)
    /\ last.err = ErrAppendBefore
    /\ last.zeros = <<>>

\* ------------------------------------------------------------------------
\* C5: with gap='ignore', append of any compatible other succeeds whatever
\* the gap or overlap, and yields self's N rows followed by other's M rows.
C5_IgnoreConcatenates ==
    (/\ last.op = "append"
     /\ last.gap = "ignore"
     /\ Compatible(PreSelf, PreOther)
     /\ PreSelf.ncols = PreOther.ncols)
    => (/\ Succeeded
        /\ heap[last.ret].data = PreSelf.data \o PreOther.data)

\* ------------------------------------------------------------------------
\* C6 (as stated): append/prepend with inplace=False leave self exactly as it
\* was, rows and metadata mapping alike, whether the call succeeds or fails,
\* and on success return a new object holding the joined rows.
ReturnsNewJoined ==
    Succeeded =>
        /\ last.ret \notin DOMAIN last.pre
        /\ Len(heap[last.ret].data) = Len(PreSelf.data) + Len(PreOther.data)
        /\ last.op = "append" =>
              SubSeq(heap[last.ret].data, 1, Len(PreSelf.data)) = PreSelf.data
        /\ last.op = "prepend" =>
              SubSeq(heap[last.ret].data, Len(PreOther.data) + 1,
                     Len(heap[last.ret].data)) = PreSelf.data

C6_CopyLeavesSelfUnmodified ==
    (IsJoin /\ ~last.inplace)
    => (heap[last.self] = PreSelf /\ ReturnsNewJoined)

\* C6 (amended): self's rows and every metadata entry that was set before the
\* call are unchanged; the only entry the call can add to self is the
\* dimensionless default under 'unit' (stored by the unit getter during the
\* compatibility check); on success a new object holds the joined rows.
SelfKeptUpToDefaultUnit ==
    LET now == heap[last.self]
    IN  /\ now.data = PreSelf.data
        /\ now.ncols = PreSelf.ncols
        /\ \A k \in DOMAIN PreSelf.metadata :
              k \in DOMAIN now.metadata /\ now.metadata[k] = PreSelf.metadata[k]
        /\ \A k \in DOMAIN now.metadata :
              k \notin DOMAIN PreSelf.metadata => (k = "unit" /\ now.metadata[k] = "")

C6_CopyLeavesSelfButDefaultUnit ==
    (IsJoin /\ ~last.inplace)
    => (SelfKeptUpToDefaultUnit /\ ReturnsNewJoined)

C6_Witness ==
    /\ last.op = "append"
    /\ ~last.inplace
    /\ Succeeded
    /\ Len(PreSelf.data) > 0
    /\ Len(PreOther.data) > 0
    /\ last.ret # last.self
    /\ "unit" \notin DOMAIN PreSelf.metadata
    /\ "unit" \in DOMAIN heap[last.self].metadata

\* ------------------------------------------------------------------------
\* C7: for compatible operands is_contiguous returns +1 when self's span end
\* is other's span start, else -1 when other's span end is self's span start,
\* else 0; for incompatible operands it returns nothing and raises the error
\* of the compatibility check.
C7_IsContiguousValue ==
    last.op = "is_contiguous" =>
        IF Compatible(PreSelf, PreOther)
        THEN /\ last.err = NoError
             /\ last.ret = (IF End(PreSelf) = Start(PreOther) THEN 1
                            ELSE IF End(PreOther) = Start(PreSelf) THEN -1
                            ELSE 0)
        ELSE /\ last.err \in CompatErrors
             /\ last.ret = 0

C7_Witness ==
    /\ last.op = "is_contiguous"
    /\ Compatible(PreSelf, PreOther)
    /\ last.err = NoError
    /\ last.ret = -1
    /\ Len(PreSelf.data) > 0

\* ------------------------------------------------------------------------
\* C8: is_contiguous is antisymmetric on compatible operands, zero-length
\* ones and self with itself included: a.is_contiguous(b) = -b.is_contiguous(a).
C8_IsContiguousAntisymmetric ==
    (last.op = "is_contiguous" /\ last.err = NoError)
    => (/\ is_contiguous(heap, last.other, last.self).err = NoError
        /\ is_contiguous(heap, last.other, last.self).ret = -last.ret)

\* ------------------------------------------------------------------------
\* C9: is_compatible returns True only when dt, df, f0 and unit are all
\* equal; when a field differs it raises the error naming the first one that
\* differs in the order dt, df, f0, unit; it never returns False.
C9_IsCompatibleChecksInOrder ==
    last.op = "is_compatible" =>
        /\ last.truth => Compatible(PreSelf, PreOther)
        /\ last.err = NoError => last.truth
        /\ BothSetDiffer(PreSelf, PreOther, "dx") => last.err = ErrDt
        /\ (/\ BothSetEqual(PreSelf, PreOther, "dx")
            /\ BothSetDiffer(PreSelf, PreOther, "dy")) => last.err = ErrDf
        /\ (/\ BothSetEqual(PreSelf, PreOther, "dx")
            /\ BothSetEqual(PreSelf, PreOther, "dy")
            /\ BothSetDiffer(PreSelf, PreOther, "y0")) => last.err = ErrF0
        /\ (/\ BothSetEqual(PreSelf, PreOther, "dx")
            /\ BothSetEqual(PreSelf, PreOther, "dy")
            /\ BothSetEqual(PreSelf, PreOther, "y0")
            /\ UnitOf(PreSelf) # UnitOf(PreOther)) => last.err = ErrUnit

C9_Witness ==
    /\ last.op = "is_compatible"
    /\ BothSetEqual(PreSelf, PreOther, "dx")
    /\ BothSetEqual(PreSelf, PreOther, "dy")
    /\ BothSetDiffer(PreSelf, PreOther, "y0")
    /\ UnitOf(PreSelf) # UnitOf(PreOther)
    /\ last.err = ErrF0
    /\ ~last.truth

\* ------------------------------------------------------------------------
\* C10: for every gap policy and both values of inplace, append and prepend
\* of an other whose time step, frequency step, frequency origin or unit
\* differs from self's raise before anything is copied or resized.
SomeFieldDiffers ==
    \/ BothSetDiffer(PreSelf, PreOther, "dx")
    \/ BothSetDiffer(PreSelf, PreOther, "dy")
    \/ BothSetDiffer(PreSelf, PreOther, "y0")
    \/ UnitOf(PreSelf) # UnitOf(PreOther)

C10_IncompatibleRaisesBeforeCopy ==
    (IsJoin /\ SomeFieldDiffers)
    => (/\ last.err \in CompatErrors
        /\ ~last.copied
        /\ NothingJoined)

C10_Witness ==
    /\ last.op = "prepend"
    /\ last.gap = "ignore"
    /\ ~last.inplace
    /\ BothSetEqual(PreSelf, PreOther, "dx")
    /\ BothSetEqual(PreSelf, PreOther, "dy")
    /\ BothSetEqual(PreSelf, PreOther, "y0")
    /\ UnitOf(PreSelf) # UnitOf(PreOther)
    /\ last.err = ErrUnit
    /\ ~last.copied

\* ------------------------------------------------------------------------
\* C11: for compatible a (N rows) and b with b's span starting where a's span
\* ends, a.append(b, gap='ignore') succeeds; slicing its result back to the
\* first N rows recovers a's original rows and the rows after them are b's.
C11_IgnoreJoinSlicesBack ==
    (/\ last.op = "append"
     /\ last.gap = "ignore"
     /\ Compatible(PreSelf, PreOther)
     /\ PreSelf.ncols = PreOther.ncols
     /\ ContiguousAfter(PreSelf, PreOther))
    => (/\ Succeeded
        /\ Len(heap[last.ret].data) = Len(PreSelf.data) + Len(PreOther.data)
        /\ SubSeq(heap[last.ret].data, 1, Len(PreSelf.data)) = PreSelf.data
        /\ SubSeq(heap[last.ret].data, Len(PreSelf.data) + 1,
                  Len(heap[last.ret].data)) = PreOther.data)

\* ========================================================================
\* The grid as an object with a life: a Spectrogram whose axis metadata is set
\* through the Array2D property setters, which is grown by in-place appends
\* and which is sliced.  The first axis of an Array2D is described by the
\* keys 'x0' and 'dx', the second by 'y0' and 'dy'.
MaxGridRows == 3
MaxOrigin == 1

\* a value handed to an axis setter: <<n, 0>> is the bare number n, <<n, k>>
\* with k > 0 is a Quantity of n in a unit worth k axis units
AxisInputs == {<<1, 0>>, <<1, 2>>}

StepInputs == {<<2, 0>>, <<1, 2>>}

\* the body shared by the four axis setters: a Quantity is converted into the
\* axis unit (value.to(unit)), a bare number is tagged with it
axis_quantity(v) == IF v[2] > 0 THEN v[1] * v[2] ELSE v[1]

x0_set(h, x, v) == [h EXCEPT ![x].metadata = Put(@, "x0", axis_quantity(v))]

dx_set(h, x, v) == [h EXCEPT ![x].metadata = Put(@, "dx", axis_quantity(v))]

y0_set(h, x, v) == [h EXCEPT ![x].metadata = Put(@, "y0", axis_quantity(v))]

dy_set(h, x, v) == [h EXCEPT ![x].metadata = Put(@, "dy", axis_quantity(v))]

\* Segment(a, b): the half-open interval [a, b)
Segment(a, b) == <<a, b>>

span_x(x) ==
    Segment(x.metadata.x0, x.metadata.x0 + NRows(x) * x.metadata.dx)

\* Variant of span_y that counts the samples of the first axis.
span_y_of_rows(x) ==
    Segment(x.metadata.y0, x.metadata.y0 + NRows(x) * x.metadata.dy)

span_y(x) ==
    Segment(x.metadata.y0, x.metadata.y0 + x.ncols * x.metadata.dy)

\* Spectrogram(data, epoch=, dt=, f0=, df=, x0=): x0 travels in **kwargs and
\* is stored, like the others, by setattr when it is not None
GridSpectrogram(rows, nc, epoch, dt, f0, df, x0) ==
    LET g == Spectrogram(rows, nc, epoch, dt, f0, df, "-")
    IN  IF x0 = NotGiven THEN g
        ELSE [g EXCEPT !.metadata = Put(@, "x0", axis_quantity(<<x0, 0>>))]

ErrKeyX0 == "KeyError: 'x0'"

\* the rows picked by the Python slice [start::step] (start >= 0, step >= 1;
\* NotGiven stands for a bound left out)
slice_rows(data, start, step) ==
    LET s0 == IF start = NotGiven THEN 0 ELSE start
        st == IF step = NotGiven THEN 1 ELSE step
        cnt == IF s0 >= Len(data) THEN 0 ELSE (Len(data) - s0 + st - 1) \div st
    IN  [i \in 1..cnt |-> data[s0 + (i - 1) * st + 1]]

\* ndarray.__getitem__(slice) followed by __array_finalize__: a view of the
\* rows picked, with a copy of the metadata dict
getitem_view(x, start, step) == [x EXCEPT !.data = slice_rows(@, start, step)]

\* lines 61-62: if item.step: new.dx *= item.step
getitem_step(h, n, step) ==
    IF step = NotGiven \/ step = 0 THEN h
    ELSE dx_set(h, n, <<h[n].metadata.dx * step, 0>>)

\* Variant of getitem_start that adds start * dx to the origin once.
getitem_start_once(h, x, n, start) ==
    IF start = NotGiven \/ start = 0 THEN h
    ELSE x0_set(h, n, <<h[n].metadata.x0 + start * h[x].metadata.dx, 0>>)

\* lines 59-60: if item.start: new.x0 += new.x0 + item.start * self.dx
getitem_start(h, x, n, start) ==
    IF start = NotGiven \/ start = 0 THEN h
    ELSE x0_set(h, n, <<h[n].metadata.x0
                         + (h[n].metadata.x0 + start * h[x].metadata.dx), 0>>)

\* Array2D.__getitem__ for item = slice(start, None, step); n is the new
\* object
Array2D_getitem(h, x, start, step, n) ==
    IF start # NotGiven /\ start # 0 /\ ~Has(h[x].metadata, "x0")
    THEN [heap |-> h, ret |-> 0, err |-> ErrKeyX0]
    ELSE [heap |-> getitem_step(
                      getitem_start(alloc(h, n, getitem_view(h[x], start, step)),
                                    x, n, start),
                      n, step),
          ret |-> n, err |-> NoError]

SliceStarts == {NotGiven, 0, 1}

SliceSteps == {NotGiven, 1, 2}

InitGrid ==
    /\ pc = "grid"
    /\ last = NoCall
    /\ \E n1 \in 0..MaxRows, n2 \in 1..MaxRows, w \in Widths,
          e2 \in 0..(MaxOrigin + 1), x \in {NotGiven} \cup (0..MaxOrigin) :
          heap = <<GridSpectrogram(Samples(0, n1, w), w, 0, 1, 0, 1, x),
                   GridSpectrogram(Samples(50, n2, w), w, e2, 1, 0, 1, NotGiven)>>

SetCall(op, x, v, h) ==
    /\ pc = "grid"
    /\ heap' = h
    /\ last' = [NoCall EXCEPT !.op = op, !.self = x, !.item = v, !.pre = heap]
    /\ pc' = pc

SetX0(x, v) == SetCall("x0", x, v, x0_set(heap, x, v))

SetDx(x, v) == SetCall("dx", x, v, dx_set(heap, x, v))

SetY0(x, v) == SetCall("y0", x, v, y0_set(heap, x, v))

SetDy(x, v) == SetCall("dy", x, v, dy_set(heap, x, v))

\* self.append(other, gap, inplace=True) on a grid that lives on
GridAppend(s, o, gap) ==
    /\ pc = "grid"
    /\ NRows(heap[s]) + NRows(heap[o]) <= MaxGridRows
    /\ LET r == append(heap, s, o, gap, TRUE)
       IN  /\ heap' = Keep(r.heap, r.ret)
           /\ last' = Record("append", s, o, gap, TRUE, r)
    /\ pc' = pc

\* self[start::step]; the slice is a view of self's buffer, and the grid is
\* not grown any more once a view of it exists
GetItem(x, start, step) ==
    /\ pc = "grid"
    /\ LET r == Array2D_getitem(heap, x, start, step, NewId(heap))
       IN  /\ heap' = r.heap
           /\ last' = [NoCall EXCEPT !.op = "getitem", !.self = x,
                           !.item = <<start, step>>, !.ret = r.ret,
                           !.err = r.err, !.pre = heap]
    /\ pc' = "done"

NextGrid ==
    \/ \E v \in AxisInputs : SetX0(1, v)
    \/ \E v \in StepInputs : SetDx(1, v)
    \/ \E v \in AxisInputs : SetY0(1, v)
    \/ \E v \in StepInputs : SetDy(1, v)
    \/ \E o \in DOMAIN heap, gap \in Gaps : GridAppend(1, o, gap)
    \/ \E start \in SliceStarts, step \in SliceSteps : GetItem(1, start, step)

SpecGrid == InitGrid /\ [][NextGrid]_vars

\* ========================================================================
\* The metadata-carrying Array and its construction paths.  Here an object
\* is a record
\*    cls      : "Array", "Array2D" or "Spectrogram"
\*    shape    : the shape tuple;  data : the elements in C (row-major) order
\*    dtype    : the element type;  fnc : flags.fnc (Fortran memory layout)
\*    metadata : the metadata dict;  mdid : the identity of that dict (two
\*               objects with the same mdid hold the very same dict)
\* and every Python value kept in or handed to the metadata is a record
\* [t, n, s]: its type, its number and its text.
Val(t, n, s) == [t |-> t, n |-> n, s |-> s]

None == Val("None", 0, "")

\* astropy.units.Unit object: symbol s raised to the power n
UnitObj(sym, p) == Val("Unit", p, sym)

Dimensionless == UnitObj("", 0)

Str(text) == Val("str", 0, text)

Float(n) == Val("float", n, "")

PyInt(n) == Val("int", n, "")

\* a Time object for the instant whose GPS value is g, held in format fmt
TimeObj(g, fmt) == Val("Time", g, fmt)

Quantity(n, sym) == Val("Quantity", n, sym)

KnownUnits == {"Hz", "s"}

ErrUnitParse == "ValueError: did not parse as unit"
ErrFloat == "ValueError: could not convert string to float"
ErrFloatNone == "TypeError: float() argument must be a string or a number"
ErrNot2D == "ValueError: Data must be two-dimensional"
ErrNoShape == "AttributeError: 'list' object has no attribute 'shape'"
ErrNoPow == "AttributeError: object has no attribute '__pow__'"
ErrSlice0d == "IndexError: a 0-d array cannot be sliced"

\* outcome of a call: the heap, the value returned (a Val), the object
\* returned (0: none) and the error raised
Res(h, v, r, e) == [heap |-> h, val |-> v, ret |-> r, err |-> e]

\* self.metadata[k] = v: seen by every object holding the same dict
md_store(h, x, k, v) ==
    [i \in DOMAIN h |->
        IF h[i].mdid = h[x].mdid
        THEN [h[i] EXCEPT !.metadata = Put(@, k, v)]
        ELSE h[i]]

\* identity of a dict created on heap h
NewMd(h) ==
    CHOOSE n \in 1..(Cardinality(DOMAIN h) + 1) :
        \A i \in DOMAIN h : h[i].mdid # n

\* Unit(val) for a val that is neither None nor a Unit: text is parsed
Unit(val) ==
    IF val.t = "str" /\ val.s = "" THEN Dimensionless
    ELSE IF val.t = "str" /\ val.s \in KnownUnits THEN UnitObj(val.s, 1)
    ELSE None

Unit_fails(val) == ~(val.t = "str" /\ val.s \in KnownUnits \cup {""})

\* Array.unit setter
Array_unit_set(h, x, val) ==
    IF val.t = "None" \/ val.t = "Unit"
    THEN Res(md_store(h, x, "unit", val), None, 0, NoError)
    ELSE IF Unit_fails(val) THEN Res(h, None, 0, ErrUnitParse)
    ELSE Res(md_store(h, x, "unit", Unit(val)), None, 0, NoError)

\* Variant of Array_unit_get that returns the default without storing it.
Array_unit_get_pure(h, x) ==
    IF Has(h[x].metadata, "unit")
    THEN Res(h, h[x].metadata.unit, 0, NoError)
    ELSE Res(h, Dimensionless, 0, NoError)

\* Array.unit getter: on KeyError, self.unit = '' and the stored value
Array_unit_get(h, x) ==
    IF Has(h[x].metadata, "unit")
    THEN Res(h, h[x].metadata.unit, 0, NoError)
    ELSE Res(Array_unit_set(h, x, Str("")).heap,
             Array_unit_set(h, x, Str("")).heap[x].metadata.unit, 0, NoError)

\* float(epoch): a number, or text that reads as one
float(val) ==
    IF val.t \in {"int", "float"} THEN Float(val.n)
    ELSE IF val.t = "str" /\ val.s = "2" THEN Float(2)
    ELSE None

float_error(val) ==
    IF val.t \in {"int", "float"} \/ (val.t = "str" /\ val.s = "2") THEN NoError
    ELSE IF val.t = "str" THEN ErrFloat
    ELSE ErrFloatNone

\* Array.epoch setter: epoch.gps of a Time, .value of a Quantity, else float()
Array_epoch_set(h, x, val) ==
    IF val.t = "Time"
    THEN Res(md_store(h, x, "epoch", Float(val.n)), None, 0, NoError)
    ELSE IF val.t = "Quantity"
    THEN Res(md_store(h, x, "epoch", Float(val.n)), None, 0, NoError)
    ELSE IF float_error(val) # NoError THEN Res(h, None, 0, float_error(val))
    ELSE Res(md_store(h, x, "epoch", float(val)), None, 0, NoError)

\* Array.epoch getter: Time(self.metadata['epoch'], format='gps'), None on
\* KeyError
Array_epoch_get(h, x) ==
    IF Has(h[x].metadata, "epoch")
    THEN Res(h, TimeObj(h[x].metadata.epoch.n, "gps"), 0, NoError)
    ELSE Res(h, None, 0, NoError)

\* str(val) of text and of a number
str(val) == IF val.t = "str" THEN val ELSE Str(ToString(val.n))

\* Array.name setter
Array_name_set(h, x, val) ==
    Res(md_store(h, x, "name", str(val)), None, 0, NoError)

\* Array.name getter
Array_name_get(h, x) ==
    IF Has(h[x].metadata, "name")
    THEN Res(h, h[x].metadata.name, 0, NoError)
    ELSE Res(h, None, 0, NoError)

\* Array.channel getter
Array_channel_get(h, x) ==
    IF Has(h[x].metadata, "channel")
    THEN Res(h, h[x].metadata.channel, 0, NoError)
    ELSE Res(h, None, 0, NoError)

\* ------------------------------------------------------------------------
\* Construction.  The data argument is a plain buffer (a list or an ndarray:
\* kind, shape, elements, dtype, layout) or an existing instance
\* [kind |-> "instance", id |-> d].
Buffer(kind, shape, data, fnc) ==
    [kind |-> kind, shape |-> shape, data |-> data, dtype |-> "int64",
     fnc |-> fnc]

Instance(d) == [kind |-> "instance", id |-> d]

EmptyMd == [k \in {} |-> None]

Classes == {"Array", "Array2D", "Spectrogram"}

\* issubclass(c, cls)
issubclass(c, cls) ==
    \/ cls = "Array"
    \/ cls = "Array2D" /\ c \in {"Array2D", "Spectrogram"}
    \/ cls = "Spectrogram" /\ c = "Spectrogram"

\* an instance seen as array-like data by numpy
as_buffer(x) ==
    [kind |-> "ndarray", shape |-> x.shape, data |-> x.data,
     dtype |-> x.dtype, fnc |-> x.fnc]

\* numpy.asarray(data).ndim
ndim(h, arg) ==
    IF arg.kind = "instance" THEN Len(h[arg.id].shape) ELSE Len(arg.shape)

\* Array.__new__, lines 109-111: setattr(new, key, val) for every keyword
\* that is not None; name, unit and epoch go through their setters
set_key(r, x, k, kw) ==
    IF r.err # NoError \/ ~Has(kw, k) THEN r
    ELSE IF kw[k].t = "None" THEN r
    ELSE IF k = "name" THEN Array_name_set(r.heap, x, kw[k])
    ELSE IF k = "unit" THEN Array_unit_set(r.heap, x, kw[k])
    ELSE IF k = "epoch" THEN Array_epoch_set(r.heap, x, kw[k])
    ELSE r

set_keywords(h, x, kw) ==
    set_key(set_key(set_key(Res(h, None, 0, NoError), x, "name", kw),
                    x, "unit", kw),
            x, "epoch", kw)

\* lines 100-113: a new Array from array-like data b.  With copy the array
\* is allocated from data.shape (a list has none) with the default layout,
\* a dtype of None then means float64, and new[:] = ... fills it (a 0-d array
\* has no axis to slice); without copy it is a view.
new_from_data(h, cls, b, dt, cp, kw, n) ==
    IF cp /\ b.kind = "list" THEN Res(h, None, 0, ErrNoShape)
    ELSE IF cp /\ Len(b.shape) = 0 THEN Res(h, None, 0, ErrSlice0d)
    ELSE LET obj == [cls |-> cls, shape |-> b.shape, data |-> b.data,
                     dtype |-> IF dt # "None" THEN dt
                               ELSE IF cp THEN "float64" ELSE b.dtype,
                     fnc |-> IF cp THEN FALSE ELSE b.fnc,
                     metadata |-> EmptyMd, mdid |-> NewMd(h)]
             r == set_keywords(alloc(h, n, obj), n, kw)
         IN  IF r.err # NoError THEN Res(h, None, 0, r.err)
             ELSE Res(r.heap, None, n, NoError)

\* lines 84-98: data is an instance of cls.  numpy.array(data, copy=False,
\* subok=True) of an unchanged dtype is data itself, so that the keywords
\* then replace the metadata dict of data; the keywords are stored as they
\* come (dict(metadata)), no setter is called.  astype() copies the data and
\* the new array is given the very dict of data.
new_from_instance(h, d, dt, cp, kw, n) ==
    LET dtype == IF dt = "None" THEN h[d].dtype ELSE dt
    IN  IF ~cp /\ dtype = h[d].dtype /\ DOMAIN kw = {}
        THEN Res(h, None, d, NoError)
        ELSE IF DOMAIN kw # {}
        THEN IF ~cp /\ dtype = h[d].dtype
             THEN Res([h EXCEPT ![d].metadata = kw, ![d].mdid = NewMd(h)],
                      None, d, NoError)
             ELSE Res(alloc(h, n, [h[d] EXCEPT !.dtype = dtype,
                                               !.metadata = kw,
                                               !.mdid = NewMd(h)]),
                      None, n, NoError)
        ELSE Res(alloc(h, n, [h[d] EXCEPT !.dtype = dtype]), None, n, NoError)

\* Array.__new__
Array_new(h, cls, arg, dt, cp, kw) ==
    IF arg.kind = "instance"
    THEN IF issubclass(h[arg.id].cls, cls)
         THEN new_from_instance(h, arg.id, dt, cp, kw, NewId(h))
         ELSE new_from_data(h, cls, as_buffer(h[arg.id]), dt, cp, kw, NewId(h))
    ELSE new_from_data(h, cls, arg, dt, cp, kw, NewId(h))

\* Variant of Array2D_new without the check of the dimensions.
Array2D_new_unchecked(h, cls, arg, dt, cp, kw) ==
    Array_new(h, cls, arg, dt, cp, kw)

\* Array2D.__new__
Array2D_new(h, cls, arg, dt, cp, kw) ==
    IF ndim(h, arg) # 2 THEN Res(h, None, 0, ErrNot2D)
    ELSE Array_new(h, cls, arg, dt, cp, kw)

\* the keywords Spectrogram.__new__ names and forwards, None when not given
SpectrogramKeywords ==
    {"name", "unit", "channel", "epoch", "f0", "dt", "df", "logf"}

\* Spectrogram.__new__ (no channel given): every named keyword is forwarded
Spectrogram_new(h, arg, dt, cp, kw) ==
    Array2D_new(h, "Spectrogram", arg, dt, cp,
                [k \in SpectrogramKeywords \cup DOMAIN kw |->
                    IF Has(kw, k) THEN kw[k] ELSE None])

\* cls(data, dtype=dt, copy=cp, **kw)
construct(h, cls, arg, dt, cp, kw) ==
    IF cls = "Array" THEN Array_new(h, cls, arg, dt, cp, kw)
    ELSE IF cls = "Array2D" THEN Array2D_new(h, cls, arg, dt, cp, kw)
    ELSE Spectrogram_new(h, arg, dt, cp, kw)

\* ------------------------------------------------------------------------
\* Exponentiation
Exponents == {2, 3}

ipow(a, y) == IF y = 2 THEN a * a ELSE a * a * a

\* Unit.__pow__
unit_pow(u, y) == IF u.s = "" THEN Dimensionless ELSE UnitObj(u.s, u.n * y)

\* ndarray.__pow__ wrapped by Array.__array_wrap__: the elementwise power
\* as a view of self's class, holding a (shallow) copy of self's metadata
array_wrap_pow(x, y, md) ==
    [x EXCEPT !.data = [k \in 1..Len(@) |-> ipow(@[k], y)], !.mdid = md]

\* Variant of Array_pow that hands self's unit on as it is.
Array_pow_keeps_unit(h, x, y, n) ==
    IF Array_unit_get(h, x).val.t # "Unit"
    THEN Res(h, None, 0, ErrNoPow)
    ELSE Res(Array_unit_set(alloc(Array_unit_get(h, x).heap, n,
                                  array_wrap_pow(h[x], y, NewMd(h))),
                            n, Array_unit_get(h, x).val).heap,
             None, n, NoError)

\* Array.__pow__: the power is computed first (the new array copies the
\* metadata as it is then), self.unit is read next (storing the default in
\* self when unset) and raised to the power, and set on the new array.
Array_pow(h, x, y, n) ==
    IF Array_unit_get(h, x).val.t # "Unit"
    THEN Res(h, None, 0, ErrNoPow)
    ELSE Res(Array_unit_set(alloc(Array_unit_get(h, x).heap, n,
                                  array_wrap_pow(h[x], y, NewMd(h))),
                            n, unit_pow(Array_unit_get(h, x).val, y)).heap,
             None, n, NoError)

\* ------------------------------------------------------------------------
\* Pickle helpers
\* Array.__getstate__: (shape, dtype, flags.fnc, data.tostring(), metadata);
\* tostring() lists the elements in C order whatever the memory layout
Array_getstate(x) ==
    [shape |-> x.shape, dtype |-> x.dtype, fnc |-> x.fnc, raw |-> x.data,
     meta |-> x.metadata]

\* Array.__reduce__
Array_reduce(x) ==
    [cls |-> x.cls, dtype |-> x.dtype, state |-> Array_getstate(x)]

\* _array_reconstruct(Class, dtype): Class.__new__(Class, [], dtype=dtype)
array_reconstruct(h, cls, dtype) ==
    construct(h, cls, Buffer("list", <<0>>, <<>>, FALSE), dtype, FALSE, EmptyMd)

\* ndarray.__setstate__ reading the raw elements: in Fortran (column-major)
\* order when the flag says so, else in C order; the result is listed in C
\* order
from_raw(raw, shape, isf) ==
    IF isf /\ Len(shape) = 2
    THEN [k \in 1..Len(raw) |->
            raw[((k - 1) \div shape[2]) + shape[1] * ((k - 1) % shape[2]) + 1]]
    ELSE raw

\* Array.__setstate__ on the reconstructed object n
Array_setstate(h, n, state) ==
    [h EXCEPT ![n] = [@ EXCEPT !.shape = state.shape,
                               !.dtype = state.dtype,
                               !.fnc = state.fnc,
                               !.data = from_raw(state.raw, state.shape,
                                                 state.fnc),
                               !.metadata = state.meta]]

\* pickle.loads(pickle.dumps(x)), rc the outcome of the reconstruction
restore(rc, state) ==
    IF rc.err # NoError THEN rc
    ELSE Res(Array_setstate(rc.heap, rc.ret, state), None, rc.ret, NoError)

unpickle(h, rd) == restore(array_reconstruct(h, rd.cls, rd.dtype), rd.state)

\* ------------------------------------------------------------------------
\* The calls on an Array
Buf0d == Buffer("ndarray", <<>>, <<3>>, FALSE)
Buf1d == Buffer("list", <<2>>, <<1, 2>>, FALSE)
Buf2dList == Buffer("list", <<1, 2>>, <<5, 6>>, FALSE)
Buf2dC == Buffer("ndarray", <<2, 2>>, <<1, 2, 3, 4>>, FALSE)
Buf2dF == Buffer("ndarray", <<2, 2>>, <<1, 2, 3, 4>>, TRUE)
Buf3d == Buffer("ndarray", <<1, 1, 2>>, <<7, 8>>, FALSE)

Buffers == {Buf0d, Buf1d, Buf2dList, Buf2dC, Buf2dF, Buf3d}

Dtypes == {"None", "float64"}

Kw1(k, v) == [x \in {k} |-> v]

\* keyword metadata given to a constructor
Keywords ==
    {EmptyMd, Kw1("unit", Str("Hz")), Kw1("unit", UnitObj("Hz", 1)),
     Kw1("epoch", TimeObj(2, "utc")), Kw1("epoch", Quantity(2, "s"))}

FromKeywords ==
    {EmptyMd, Kw1("unit", Str("Hz")), Kw1("epoch", TimeObj(2, "utc"))}

UnitInputs == {None, UnitObj("Hz", 1), Str("Hz"), Str(""), Str("zz")}

EpochInputs == {TimeObj(2, "utc"), Quantity(2, "s"), PyInt(2), Str("2"),
                Str("now"), None}

NoArrayCall ==
    [op |-> "none", self |-> 0, cls |-> "", arg |-> Instance(0),
     dtype |-> "None", copy |-> FALSE, kw |-> EmptyMd, input |-> None,
     val |-> None, ret |-> 0, err |-> NoError, pre |-> <<>>]

InitArray ==
    /\ pc = "array"
    /\ last = NoArrayCall
    /\ heap = <<>>

\* calls are made on the constructed object until one of them gives a
\* second object (a copy, a power, a restored pickle)
Alive == pc = "array"

Derived(r) == IF r.ret \in DOMAIN heap \/ r.ret = 0 THEN pc ELSE "done"

\* cls(data, dtype=, copy=, **kw) on a plain buffer.  The epoch of a
\* Spectrogram is a property of TimeSeries, so none is given here.
New(cls, b, dt, cp, kw) ==
    /\ pc = "array"
    /\ heap = <<>>
    /\ cls = "Spectrogram" => ~Has(kw, "epoch")
    /\ LET r == construct(heap, cls, b, dt, cp, kw)
       IN  /\ heap' = r.heap
           /\ last' = [NoArrayCall EXCEPT !.op = "new", !.cls = cls,
                           !.arg = b, !.dtype = dt, !.copy = cp, !.kw = kw,
                           !.ret = r.ret, !.err = r.err, !.pre = heap]
    /\ pc' = pc

\* cls(d, dtype=, copy=, **kw) on an existing instance d
NewFrom(cls, d, dt, cp, kw) ==
    /\ Alive
    /\ LET r == construct(heap, cls, Instance(d), dt, cp, kw)
       IN  /\ heap' = r.heap
           /\ last' = [NoArrayCall EXCEPT !.op = "new_from", !.self = d,
                           !.cls = cls, !.arg = Instance(d), !.dtype = dt,
                           !.copy = cp, !.kw = kw, !.ret = r.ret,
                           !.err = r.err, !.pre = heap]
           /\ pc' = Derived(r)

ArrayCall(op, x, v, r) ==
    /\ Alive
    /\ heap' = r.heap
    /\ last' = [NoArrayCall EXCEPT !.op = op, !.self = x, !.input = v,
                    !.val = r.val, !.ret = r.ret, !.err = r.err,
                    !.pre = heap]
    /\ pc' = Derived(r)

SetUnit(x, v) == ArrayCall("set_unit", x, v, Array_unit_set(heap, x, v))

\* the epoch property of a Spectrogram is TimeSeries.epoch, not Array.epoch
SetEpoch(x, v) ==
    /\ heap[x].cls # "Spectrogram"
    /\ ArrayCall("set_epoch", x, v, Array_epoch_set(heap, x, v))

SetName(x, v) == ArrayCall("set_name", x, v, Array_name_set(heap, x, v))

GetUnit(x) == ArrayCall("get_unit", x, None, Array_unit_get(heap, x))

\* read on an object whose stored epoch, if any, is a GPS number (what
\* Time(..., format='gps') is built from)
GetEpoch(x) ==
    /\ heap[x].cls # "Spectrogram"
    /\ Has(heap[x].metadata, "epoch") => heap[x].metadata.epoch.t = "float"
    /\ ArrayCall("get_epoch", x, None, Array_epoch_get(heap, x))

GetName(x) == ArrayCall("get_name", x, None, Array_name_get(heap, x))

GetChannel(x) == ArrayCall("get_channel", x, None, Array_channel_get(heap, x))

Pow(x, y) ==
    ArrayCall("pow", x, PyInt(y), Array_pow(heap, x, y, NewId(heap)))

Pickle(x) ==
    ArrayCall("pickle", x, None, unpickle(heap, Array_reduce(heap[x])))

\* self.view() (and any slice of self): a new array on self's buffer whose
\* __array_finalize__ stores a shallow copy of self's metadata dict
Array_view(h, x, n) ==
    Res(alloc(h, n, [h[x] EXCEPT !.mdid = NewMd(h)]), None, n, NoError)

\* Array.copy: ndarray.copy plus copy.deepcopy of the metadata dict
Array_copy(h, x, n) ==
    Res(alloc(h, n, [h[x] EXCEPT !.mdid = NewMd(h)]), None, n, NoError)

View(x) == ArrayCall("view", x, None, Array_view(heap, x, NewId(heap)))

Copy(x) == ArrayCall("copy", x, None, Array_copy(heap, x, NewId(heap)))

\* x.name = v on either of the two objects once the second one exists
SetNameOfEither(x, v) ==
    /\ pc = "done"
    /\ LET r == Array_name_set(heap, x, v)
       IN  /\ heap' = r.heap
           /\ last' = [NoArrayCall EXCEPT !.op = "set_name_of_either",
                           !.self = x, !.input = v, !.val = r.val,
                           !.ret = r.ret, !.err = r.err, !.pre = heap]
    /\ pc' = "end"

NextArray ==
    \/ \E cls \in Classes, b \in Buffers, dt \in Dtypes, cp \in BOOLEAN,
          kw \in Keywords : New(cls, b, dt, cp, kw)
    \/ \E cls \in Classes, d \in DOMAIN heap, dt \in Dtypes, cp \in BOOLEAN,
          kw \in FromKeywords : NewFrom(cls, d, dt, cp, kw)
    \/ \E x \in DOMAIN heap, v \in UnitInputs : SetUnit(x, v)
    \/ \E x \in DOMAIN heap, v \in EpochInputs : SetEpoch(x, v)
    \/ \E x \in DOMAIN heap : SetName(x, Str("n"))
    \/ \E x \in DOMAIN heap : GetUnit(x)
    \/ \E x \in DOMAIN heap : GetEpoch(x)
    \/ \E x \in DOMAIN heap : GetName(x)
    \/ \E x \in DOMAIN heap : GetChannel(x)
    \/ \E x \in DOMAIN heap, y \in Exponents : Pow(x, y)
    \/ \E x \in DOMAIN heap : Pickle(x)
    \/ \E x \in DOMAIN heap : View(x)
    \/ \E x \in DOMAIN heap : Copy(x)
    \/ \E x \in DOMAIN heap : SetNameOfEither(x, Str("m"))

SpecArray == InitArray /\ [][NextArray]_vars

\* ------------------------------------------------------------------------
\* C12: in every state reached by construction, setter calls and in-place
\* appends, each axis that has its origin and its step set spans the half-open
\* interval [origin, origin + N*step), N the current sample count on that
\* axis: the rows for x0/dx and for the time axis epoch/dt, the columns for
\* y0/dy.
SpanIs(sp, x, origin, step, n) ==
    (Has(x.metadata, origin) /\ Has(x.metadata, step))
    => sp = <<x.metadata[origin],
              x.metadata[origin] + n * x.metadata[step]>>

C12_SpanIsOriginPlusCountTimesStep ==
    \A i \in DOMAIN heap :
        /\ (Has(heap[i].metadata, "x0") /\ Has(heap[i].metadata, "dx"))
           => SpanIs(span_x(heap[i]), heap[i], "x0", "dx", Len(heap[i].data))
        /\ (Has(heap[i].metadata, "y0") /\ Has(heap[i].metadata, "dy"))
           => SpanIs(span_y(heap[i]), heap[i], "y0", "dy", heap[i].ncols)
        /\ (Has(heap[i].metadata, "epoch") /\ Has(heap[i].metadata, "dx"))
           => SpanIs(span(heap[i]), heap[i], "epoch", "dx", Len(heap[i].data))

C12_Witness ==
    /\ last.op = "append"
    /\ Succeeded
    /\ Has(heap[1].metadata, "x0")
    /\ heap[1].metadata.dx = 2
    /\ heap[1].metadata.dy = 2
    /\ Len(heap[1].data) > Len(last.pre[1].data)
    /\ Len(heap[1].data) # heap[1].ncols
    /\ span_x(heap[1])[2] = span_x(last.pre[1])[2] + 2 * Len(PreOther.data)

\* ========================================================================
\* Properties of the Array calls.  The object a call was made on, as it was
\* before the call, and the value read through its unit property.
APre == last.pre[last.self]

UnitRead(x) ==
    IF Has(x.metadata, "unit") THEN x.metadata.unit ELSE Dimensionless

\* ------------------------------------------------------------------------
\* C13: for every constructed instance a, restoring the state given by
\* __reduce__/__getstate__ into the instance rebuilt by _array_reconstruct
\* succeeds and gives another object with a's shape, dtype and elements and
\* with a metadata mapping equal to a's in a dict of its own.
C13_PickleRoundTrip ==
    last.op = "pickle" =>
        /\ last.err = NoError
        /\ last.ret \in DOMAIN heap
        /\ last.ret # last.self
        /\ heap[last.ret].cls = APre.cls
        /\ heap[last.ret].shape = APre.shape
        /\ heap[last.ret].dtype = APre.dtype
        /\ heap[last.ret].data = APre.data
        /\ heap[last.ret].metadata = APre.metadata
        /\ heap[last.ret].mdid # heap[last.self].mdid

\* ------------------------------------------------------------------------
\* C14: for an array a whose unit reads as a unit, a ** 2 is a new array
\* whose unit is a.unit ** 2 and whose elements are the squares of a's,
\* while a's elements and the unit read from a stay as they were.
UnitSquared(u) == IF u.s = "" THEN u ELSE [u EXCEPT !.n = 2 * u.n]

C15_UnitStoredNormalized ==
    \A i \in DOMAIN heap :
        Has(heap[i].metadata, "unit")
        => heap[i].metadata.unit.t \in {"Unit", "None"}

\* ------------------------------------------------------------------------
\* C16: in every reachable state the value stored under 'epoch', if any, is
\* a GPS number, whichever way it got there: the setter or a constructor
\* given an epoch keyword.
C16_EpochStoredAsGps ==
    \A i \in DOMAIN heap :
        Has(heap[i].metadata, "epoch")
        => heap[i].metadata.epoch.t = "float"

\* ------------------------------------------------------------------------
\* C17: reading name, epoch or channel when that key was never set returns
\* None, raises nothing and changes nothing; reading an unset unit returns
\* the dimensionless unit and stores it under 'unit', changing nothing else.
KeyRead ==
    IF last.op = "get_name" THEN "name"
    ELSE IF last.op = "get_epoch" THEN "epoch"
    ELSE IF last.op = "get_channel" THEN "channel"
    ELSE "unit"

C17_UnsetReads ==
    /\ (/\ last.op \in {"get_name", "get_epoch", "get_channel"}
        /\ ~Has(APre.metadata, KeyRead))
       => (/\ last.val = None
           /\ last.err = NoError
           /\ heap = last.pre)
    /\ (/\ last.op = "get_unit"
        /\ ~Has(APre.metadata, "unit"))
       => (/\ last.val = Dimensionless
           /\ last.err = NoError
           /\ DOMAIN heap = DOMAIN last.pre
           /\ heap[last.self].metadata =
                 Put(APre.metadata, "unit", Dimensionless)
           /\ heap[last.self].data = APre.data
           /\ heap[last.self].mdid = APre.mdid)

C17_Witness ==
    /\ last.op = "get_unit"
    /\ Has(APre.metadata, "epoch")
    /\ ~Has(APre.metadata, "unit")
    /\ last.val = Dimensionless
    /\ heap[last.self].metadata.unit = Dimensionless

\* ------------------------------------------------------------------------
\* C18: constructing cls(a) from an instance a of cls, with no copy, no
\* other dtype and no metadata keyword, returns a itself and leaves a's
\* metadata as it was, for Array, Array2D and Spectrogram alike.
C18_IdentityReuse ==
    (/\ last.op = "new_from"
     /\ issubclass(APre.cls, last.cls)
     /\ ~last.copy
     /\ last.dtype \in {"None", APre.dtype}
     /\ last.kw = EmptyMd)
    => (/\ last.err = NoError
        /\ last.ret = last.self
        /\ heap = last.pre)

\* ------------------------------------------------------------------------
\* C19: constructing an Array2D (or Spectrogram) from data that does not
\* have exactly two dimensions raises the "must be two-dimensional" error
\* and creates nothing; data of exactly two dimensions passes this check and
\* what is then constructed is two-dimensional.
Is2DClass == last.cls \in {"Array2D", "Spectrogram"}

SliceStart == IF last.item[1] = NotGiven THEN 0 ELSE last.item[1]

SliceStep == IF last.item[2] = NotGiven THEN 1 ELSE last.item[2]

C20_SliceAdjustsOriginAndStep ==
    (/\ last.op = "getitem"
     /\ Has(PreSelf.metadata, "x0")
     /\ Has(PreSelf.metadata, "dx"))
    => (/\ Succeeded
        /\ last.ret # last.self
        /\ heap[last.ret].metadata.x0 =
              PreSelf.metadata.x0 + SliceStart * PreSelf.metadata.dx
        /\ heap[last.ret].metadata.dx = PreSelf.metadata.dx * SliceStep
        /\ DOMAIN heap[last.ret].metadata = DOMAIN PreSelf.metadata
        /\ \A k \in DOMAIN PreSelf.metadata \ {"x0", "dx"} :
              heap[last.ret].metadata[k] = PreSelf.metadata[k]
        /\ heap[last.self].metadata = PreSelf.metadata)

\* ========================================================================
\* The axis indices of an Array2D, their cache and the log flags.  Here a
\* grid is a record with the fields of a spectrogram record plus
\*    attrs : the instance attributes _xindex and _yindex, when they exist
\*            (a cached index is the sequence of its samples)
\* and its metadata may also hold name (text), logx and logy (booleans).
ErrKeyDx == "KeyError: 'dx'"
ErrIndex == "IndexError: index out of bounds"
ErrMetdata == "AttributeError: object has no attribute 'metdata'"
ErrDelIndex == "AttributeError: _index"

NoAttrs == [k \in {} |-> <<>>]

Array2D(rows, nc, md) ==
    [data |-> rows, ncols |-> nc, metadata |-> md, attrs |-> NoAttrs]

IRes(h, r, e) == [heap |-> h, ret |-> r, err |-> e]

Del(md, k) == Restrict(md, (DOMAIN md) \ {k})

\* the two axes: the metadata keys and the attribute of each, and the
\* number of samples along it (shape[0], shape[-1])
XAxis == [x0 |-> "x0", dx |-> "dx", log |-> "logx", index |-> "_xindex",
          e0 |-> ErrKeyX0, ed |-> ErrKeyDx]

YAxis == [x0 |-> "y0", dx |-> "dy", log |-> "logy", index |-> "_yindex",
          e0 |-> ErrKeyY0, ed |-> ErrKeyDy]

axis_len(x, ax) == IF ax.index = "_xindex" THEN NRows(x) ELSE x.ncols

\* logx / logy getter: an unset flag is stored as False through the setter
\* (which, for a false value, only stores)
log_get(h, x, ax) ==
    IF Has(h[x].metadata, ax.log)
    THEN [heap |-> h, val |-> h[x].metadata[ax.log]]
    ELSE [heap |-> [h EXCEPT ![x].metadata = Put(@, ax.log, FALSE)],
          val |-> FALSE]

\* logx setter: the condition reads self.metdata as soon as val is true and
\* the key exists, which raises before anything is deleted or stored
Array2D_logx_set(h, x, val) ==
    IF val /\ Has(h[x].metadata, "logx")
    THEN IRes(h, 0, ErrMetdata)
    ELSE IRes([h EXCEPT ![x].metadata = Put(@, "logx", val)], 0, NoError)

\* logy setter: where the flag goes from false to true with a cached
\* _yindex it deletes self._index, an attribute that does not exist
Array2D_logy_set(h, x, val) ==
    IF /\ val
       /\ Has(h[x].metadata, "logy")
       /\ ~h[x].metadata.logy
       /\ Has(h[x].attrs, "_yindex")
    THEN IRes(h, 0, ErrDelIndex)
    ELSE IRes([h EXCEPT ![x].metadata = Put(@, "logy", val)], 0, NoError)

\* numpy.arange(n) * dx + x0
arange(n, x0, dx) == [k \in 1..n |-> x0 + (k - 1) * dx]

\* numpy.logspace(log10(x0), log10(x0) + n * logdx, num=n) with
\* logdx = log10(x0 + dx) - log10(x0): sample k of n is
\* x0 * ((x0 + dx) / x0) ^ (k * n / (n - 1)), k = 0..n-1.  For n <= 2 and x0
\* dividing (x0 + dx)^2 the samples are whole numbers; the grids explored
\* here stay in that range.
logspace(n, x0, dx) ==
    [k \in 1..n |-> IF k = 1 THEN x0 ELSE ((x0 + dx) * (x0 + dx)) \div x0]

\* xindex / yindex setter (samples: the samples of an Array or of anything
\* Array(...) wraps): cache, then x0 = index[0], dx = index[1] - index[0],
\* and del dx when there is no index[1]
index_set(h, x, ax, samples) ==
    LET h1 == [h EXCEPT ![x].attrs = Put(@, ax.index, samples)]
        h2 == [h1 EXCEPT ![x].metadata = Put(@, ax.x0, samples[1])]
    IN  IF Len(samples) = 0 THEN IRes(h1, 0, ErrIndex)
        ELSE IF Len(samples) >= 2
        THEN IRes([h2 EXCEPT ![x].metadata =
                       Put(@, ax.dx, samples[2] - samples[1])], 0, NoError)
        ELSE IF Has(h2[x].metadata, ax.dx)
        THEN IRes([h2 EXCEPT ![x].metadata = Del(@, ax.dx)], 0, NoError)
        ELSE IRes(h2, 0, ax.ed)

Array2D_xindex_set(h, x, samples) == index_set(h, x, XAxis, samples)

Array2D_yindex_set(h, x, samples) == index_set(h, x, YAxis, samples)

\* xindex / yindex getter: the cached index, or else the index computed
\* from the origin and step (the log flag read first) and assigned through
\* the setter
index_get(h, x, ax) ==
    IF Has(h[x].attrs, ax.index) THEN IRes(h, 0, NoError)
    ELSE LET g == log_get(h, x, ax)
             md == g.heap[x].metadata
             n == axis_len(h[x], ax)
         IN  IF g.val
             THEN IF ~Has(md, ax.x0) THEN IRes(g.heap, 0, ax.e0)
                  ELSE IF ~Has(md, ax.dx) THEN IRes(g.heap, 0, ax.ed)
                  ELSE index_set(g.heap, x, ax,
                                 logspace(n, md[ax.x0], md[ax.dx]))
             ELSE IF ~Has(md, ax.dx) THEN IRes(g.heap, 0, ax.ed)
                  ELSE IF ~Has(md, ax.x0) THEN IRes(g.heap, 0, ax.e0)
                  ELSE index_set(g.heap, x, ax,
                                 arange(n, md[ax.x0], md[ax.dx]))

Array2D_xindex_get(h, x) == index_get(h, x, XAxis)

Array2D_yindex_get(h, x) == index_get(h, x, YAxis)

\* Series(data, **keywords): a one-dimensional array with a metadata dict
\* of its own, holding the keywords that are not None
Series(row, kw) == [data |-> row, metadata |-> kw]

\* the keywords unit, name, dx, epoch, x0 handed to Series(...) by a grid g
\* with its unit set, the step and origin read from the keys d and o; name
\* and epoch read as None when they are not set
series_keywords(g, d, o) ==
    [k \in {"unit", "dx", "x0"} \cup ({"name", "epoch"} \cap DOMAIN g.metadata)
        |-> IF k = "dx" THEN g.metadata[d]
            ELSE IF k = "x0" THEN g.metadata[o]
            ELSE g.metadata[k]]

\* Variant of Array2D_getitem_int that takes the series' origin and step
\* from axis 0.
Array2D_getitem_int_axis0(h, x, i, n) ==
    LET N == NRows(h[x])
        r == IF i < 0 THEN N + i ELSE i
        h1 == unit_get(h, x)
        g == h1[x]
    IN  IF r < 0 \/ r >= N THEN IRes(h, 0, ErrIndex)
        ELSE IF ~Has(g.metadata, "dx") THEN IRes(h1, 0, ErrKeyDx)
        ELSE IF ~Has(g.metadata, "x0") THEN IRes(h1, 0, ErrKeyX0)
        ELSE IRes(alloc(h1, n, Series(g.data[r + 1],
                                      series_keywords(g, "dx", "x0"))),
                  n, NoError)

\* Array2D.__getitem__ for an integer item i (negative: counted from the
\* end); n is the new object.  The row is taken first, then the keywords of
\* Series(...) are read in order: unit, name, dy, epoch, channel, y0.
Array2D_getitem_int(h, x, i, n) ==
    LET N == NRows(h[x])
        r == IF i < 0 THEN N + i ELSE i
        h1 == unit_get(h, x)
        g == h1[x]
    IN  IF r < 0 \/ r >= N THEN IRes(h, 0, ErrIndex)
        ELSE IF ~Has(g.metadata, "dy") THEN IRes(h1, 0, ErrKeyDy)
        ELSE IF ~Has(g.metadata, "y0") THEN IRes(h1, 0, ErrKeyY0)
        ELSE IRes(alloc(h1, n, Series(g.data[r + 1],
                                      series_keywords(g, "dy", "y0"))),
                  n, NoError)

\* ------------------------------------------------------------------------
\* One grid and the calls made on it
IndexShapes == {<<1, 2>>, <<2, 2>>}

\* metadata a grid is constructed with: nothing, or both axes with unit,
\* name and epoch
AxesMd == [k \in {"x0", "dx", "y0", "dy"} |->
              IF k = "x0" THEN 1 ELSE IF k = "y0" THEN 2 ELSE 2]

IndexMetadata ==
    {[k \in {} |-> 0],
     Put(Put(Put(AxesMd, "unit", "Hz"), "name", "n"), "epoch", 0)}

\* indices assigned from outside
IndexInputs == {<<3>>, <<3, 4>>}

\* values handed to the origin setters and to the step setters
OriginInputs == {<<1, 0>>}

StepInput == {<<1, 2>>}

IntItems == {-1, 0, 1, 2}

InitIndex ==
    /\ pc = "index"
    /\ last = NoCall
    /\ \E sh \in IndexShapes, md \in IndexMetadata :
          heap = <<Array2D(Samples(0, sh[1], sh[2]), sh[2], md)>>

IndexCall(op, x, v, r) ==
    /\ pc = "index"
    /\ heap' = r.heap
    /\ last' = [NoCall EXCEPT !.op = op, !.self = x, !.item = v,
                    !.ret = r.ret, !.err = r.err, !.pre = heap]
    /\ pc' = IF r.ret = 0 THEN pc ELSE "done"

GetXindex(x) == IndexCall("get_xindex", x, <<>>, Array2D_xindex_get(heap, x))

GetYindex(x) == IndexCall("get_yindex", x, <<>>, Array2D_yindex_get(heap, x))

SetXindex(x, v) == IndexCall("set_xindex", x, v, Array2D_xindex_set(heap, x, v))

SetYindex(x, v) == IndexCall("set_yindex", x, v, Array2D_yindex_set(heap, x, v))

SetLogx(x, v) == IndexCall("set_logx", x, v, Array2D_logx_set(heap, x, v))

SetLogy(x, v) == IndexCall("set_logy", x, v, Array2D_logy_set(heap, x, v))

SetAxis(op, x, v, h) == IndexCall(op, x, v, IRes(h, 0, NoError))

\* self[i]: the series is a second object, and the behaviour ends with it
GetRow(x, i) ==
    IndexCall("getitem_int", x, i, Array2D_getitem_int(heap, x, i, NewId(heap)))

NextIndex ==
    \/ GetXindex(1)
    \/ GetYindex(1)
    \/ \E v \in IndexInputs : SetXindex(1, v)
    \/ \E v \in IndexInputs : SetYindex(1, v)
    \/ \E v \in BOOLEAN : SetLogx(1, v)
    \/ \E v \in BOOLEAN : SetLogy(1, v)
    \/ \E v \in OriginInputs : SetAxis("x0", 1, v, x0_set(heap, 1, v))
    \/ \E v \in StepInput : SetAxis("dx", 1, v, dx_set(heap, 1, v))
    \/ \E v \in OriginInputs : SetAxis("y0", 1, v, y0_set(heap, 1, v))
    \/ \E v \in StepInput : SetAxis("dy", 1, v, dy_set(heap, 1, v))
    \/ \E i \in IntItems : GetRow(1, i)

SpecIndex == InitIndex /\ [][NextIndex]_vars

\* ------------------------------------------------------------------------
\* the row an integer item selects (negative items count from the end)
RowOf(i, x) == IF i < 0 THEN NRows(x) + i ELSE i

RowInRange == RowOf(last.item, PreSelf) \in 0..(NRows(PreSelf) - 1)

IsIntItem == last.op = "getitem_int"

SameName(s, g) ==
    /\ Has(s.metadata, "name") <=> Has(g.metadata, "name")
    /\ Has(g.metadata, "name") => s.metadata.name = g.metadata.name

\* C21 as stated: g[i] is a series holding row i, whose step is g's dy,
\* whose x0 is g's axis-0 origin at index i (x0 + i * dx), and which carries
\* g's unit and name.
C21_RowSeriesOriginOnAxis0 ==
    (/\ IsIntItem
     /\ RowInRange
     /\ \A k \in {"x0", "dx", "y0", "dy"} : Has(PreSelf.metadata, k))
    => (/\ Succeeded
        /\ heap[last.ret].data = PreSelf.data[RowOf(last.item, PreSelf) + 1]
        /\ heap[last.ret].metadata.dx = PreSelf.metadata.dy
        /\ heap[last.ret].metadata.x0 =
              PreSelf.metadata.x0
              + RowOf(last.item, PreSelf) * PreSelf.metadata.dx
        /\ heap[last.ret].metadata.unit = UnitOf(PreSelf)
        /\ SameName(heap[last.ret], PreSelf))

\* C21 (amended): for an integer i within the rows of a grid g with y0 and
\* dy set, g[i] is a new one-dimensional series holding row i, whose step is
\* g's dy, whose x0 is g's axis-1 origin y0, and which carries g's unit and
\* name; g's data is left as it was.
C21_RowSeriesOnAxis1 ==
    (/\ IsIntItem
     /\ RowInRange
     /\ Has(PreSelf.metadata, "y0")
     /\ Has(PreSelf.metadata, "dy"))
    => (/\ Succeeded
        /\ last.ret # last.self
        /\ heap[last.ret].data = PreSelf.data[RowOf(last.item, PreSelf) + 1]
        /\ heap[last.ret].metadata.dx = PreSelf.metadata.dy
        /\ heap[last.ret].metadata.x0 = PreSelf.metadata.y0
        /\ heap[last.ret].metadata.unit = UnitOf(PreSelf)
        /\ SameName(heap[last.ret], PreSelf)
        /\ heap[last.self].data = PreSelf.data)

\* row 1 of a two-row named grid whose two axes differ in origin
C21_Witness ==
    /\ IsIntItem
    /\ Succeeded
    /\ last.item = 1
    /\ Has(PreSelf.metadata, "name")
    /\ Has(PreSelf.metadata, "x0")
    /\ PreSelf.metadata.x0 # PreSelf.metadata.y0
    /\ heap[last.ret].data = PreSelf.data[2]

\* ------------------------------------------------------------------------
\* the axis a call on an index or on a log flag is about
CallAxis == IF last.op \in {"set_logx", "get_xindex", "set_xindex"}
            THEN XAxis ELSE YAxis

IsSetLog == last.op \in {"set_logx", "set_logy"}

IsGetIndex == last.op \in {"get_xindex", "get_yindex"}

IsSetIndex == last.op \in {"set_xindex", "set_yindex"}

\* set to true while the flag is stored as false and the index is cached
FlagRaisedOverCache ==
    /\ last.item = TRUE
    /\ Has(PreSelf.metadata, CallAxis.log)
    /\ ~PreSelf.metadata[CallAxis.log]
    /\ Has(PreSelf.attrs, CallAxis.index)

\* C22: setting logx (logy) to true on a grid whose flag is stored as false
\* and whose index is cached succeeds, stores the flag and removes the
\* cached index; setting the flag in any other situation leaves the cache
\* as it was; and an index read that finds the flag true and no cache
\* computes the logarithmically spaced index.
C22_LogFlagDropsCachedIndex ==
    /\ IsSetLog =>
          IF FlagRaisedOverCache
          THEN /\ last.err = NoError
               /\ ~Has(heap[last.self].attrs, CallAxis.index)
               /\ heap[last.self].metadata[CallAxis.log] = TRUE
          ELSE heap[last.self].attrs = PreSelf.attrs
    /\ (/\ IsGetIndex
        /\ last.err = NoError
        /\ ~Has(PreSelf.attrs, CallAxis.index)
        /\ Has(PreSelf.metadata, CallAxis.log)
        /\ PreSelf.metadata[CallAxis.log])
       => heap[last.self].attrs[CallAxis.index] =
             logspace(axis_len(PreSelf, CallAxis),
                      PreSelf.metadata[CallAxis.x0],
                      PreSelf.metadata[CallAxis.dx])

\* ------------------------------------------------------------------------
\* the origin and step of axis ax agree with its cached index
IndexAgrees(g, ax) ==
    (/\ Has(g.attrs, ax.index)
     /\ Len(g.attrs[ax.index]) >= 2)
    => (/\ Has(g.metadata, ax.x0)
        /\ Has(g.metadata, ax.dx)
        /\ g.metadata[ax.x0] = g.attrs[ax.index][1]
        /\ g.metadata[ax.dx] = g.attrs[ax.index][2] - g.attrs[ax.index][1])

\* C23: in every reachable state, after any sequence of index reads, index
\* assignments and x0/dx/y0/dy setter calls, an axis whose index is cached
\* with at least two samples has its origin equal to index[0] and its step
\* equal to index[1] - index[0].
C23_CachedIndexAgreesWithOriginAndStep ==
    (pc \in {"index", "done"} /\ "attrs" \in DOMAIN heap[1])
    => IndexAgrees(heap[1], XAxis) /\ IndexAgrees(heap[1], YAxis)

\* ------------------------------------------------------------------------
\* C27: assigning an index from outside succeeds, caches it and sets the
\* origin to index[0]; with two samples or more the step becomes
\* index[1] - index[0], with fewer the step key is removed.
C27_IndexAssignmentSetsOriginAndStep ==
    IsSetIndex
    => (/\ last.err = NoError
        /\ heap[last.self].attrs[CallAxis.index] = last.item
        /\ heap[last.self].metadata[CallAxis.x0] = last.item[1]
        /\ IF Len(last.item) >= 2
           THEN heap[last.self].metadata[CallAxis.dx] =
                   last.item[2] - last.item[1]
           ELSE ~Has(heap[last.self].metadata, CallAxis.dx))

\* ------------------------------------------------------------------------
\* C24: whenever append or prepend with in_place=True ends in an error,
\* self's shape, data and metadata are exactly what they were before the
\* call.
C24_FailedInPlaceJoinLeavesSelf ==
    (/\ IsJoin
     /\ last.inplace
     /\ last.err # NoError)
    => (/\ heap[last.self].data = PreSelf.data
        /\ heap[last.self].ncols = PreSelf.ncols
        /\ heap[last.self].metadata = PreSelf.metadata)

\* ------------------------------------------------------------------------
\* rows of the zero blocks a call synthesized
RECURSIVE SumSeq(_)
SumSeq(s) == IF s = <<>> THEN 0 ELSE Head(s) + SumSeq(Tail(s))

\* C26: append/prepend with in_place=True that succeed return self itself,
\* and self then has its previous row count plus other's row count, plus
\* the pad rows under gap='pad'.
C26_InPlaceReturnsSelfGrown ==
    (/\ IsJoin
     /\ last.inplace
     /\ Succeeded)
    => (/\ last.ret = last.self
        /\ ~last.copied
        /\ NRows(heap[last.self]) =
              NRows(PreSelf) + NRows(PreOther)
              + (IF last.gap = "pad" THEN SumSeq(last.zeros) ELSE 0))

C26_Witness ==
    /\ IsJoin
    /\ last.inplace
    /\ Succeeded
    /\ last.self # last.other
    /\ NRows(PreSelf) >= 1
    /\ NRows(PreOther) = 2
    /\ NRows(heap[last.self]) = NRows(PreSelf) + 2

\* ------------------------------------------------------------------------
\* other ends exactly where self starts
OtherPrecedesSelf == End(PreOther) = Start(PreSelf)

\* C28: for compatible self (N rows) and other (M rows) of one row width,
\* with other immediately preceding self, prepend(other) succeeds and
\* yields N+M rows: other's rows in order followed by self's original rows
\* in order.
C28_PrependPutsOtherFirst ==
    (/\ last.op = "prepend"
     /\ Compatible(PreSelf, PreOther)
     /\ PreSelf.ncols = PreOther.ncols
     /\ OtherPrecedesSelf)
    => (/\ Succeeded
        /\ heap[last.ret].data = PreOther.data \o PreSelf.data)

\* ------------------------------------------------------------------------
\* C29: after a successful prepend of an other that immediately precedes
\* self, the result's span is [other.start, self.end): its epoch is other's
\* epoch.
C29_PrependSpanStartsAtOther ==
    (/\ last.op = "prepend"
     /\ Succeeded
     /\ OtherPrecedesSelf)
    => (/\ Start(heap[last.ret]) = Start(PreOther)
        /\ span(heap[last.ret]) = <<Start(PreOther), End(PreSelf)>>)

\* ------------------------------------------------------------------------
\* a zero block was synthesized by the call
Padded == IsJoin /\ last.gap = "pad" /\ last.zeros # <<>>

\* C30: when append/prepend with gap='pad' synthesize a zero block, the
\* nested join of the block neither fails the compatibility check nor finds
\* the block discontiguous, and no further block is synthesized inside it
\* (recursion depth one).
C30_PadJoinsBlockDirectly ==
    Padded
    => (/\ Len(last.zeros) = 1
        /\ last.err \notin CompatErrors
                           \cup {ErrDiscontiguous, ErrAppendBefore,
                                 ErrPrependAfter})

\* ------------------------------------------------------------------------
\* C25: once a second instance exists (derived from the first by view,
\* arithmetic, copy(), pickling or re-construction), setting a metadata key
\* on either of them leaves the metadata read from the other as it was.
C25_NoSharedMetadata ==
    last.op = "set_name_of_either"
    => \A j \in (DOMAIN heap) \ {last.self} :
          heap[j].metadata = last.pre[j].metadata

====
